---- MODULE Spec2Model ----
(***************************************************************************)
(* A model of robotarmlib.RobotArm: the session object that drives         *)
(* ftobler's robot arm over a serial port.  Text is modelled as sequences  *)
(* of one-character strings, so that formatting, splitting, parsing and    *)
(* encoding are computed the way the Python code computes them.            *)
(***************************************************************************)
EXTENDS Integers, Sequences, FiniteSets, TLC

VARIABLES
    phase,          \* "new" before __init__, "live" after it, "failed" when __init__ raised, "deleted" after __del__
    attachment,     \* self.attachment
    serial_port,    \* self.serial_port: NoPort (Python None) or a serial.Serial record
    already_init,   \* self.__already_init
    x_pos,          \* self.__x_pos
    y_pos,          \* self.__y_pos
    z_pos,          \* self.__z_pos
    coarse_step,    \* self.coarse_step
    fine_step,      \* self.fine_step
    wire,           \* the payloads handed to serial_port.write, oldest first
    last,           \* the last call: its name, arguments, exception and return value
    before,         \* the session as it was when the last call began
    ncalls,         \* number of calls made after construction, the release included
    caller_opened,  \* history: the caller has opened the port on the port object itself
    prev_raw        \* history: the command of the call before the last one when that
                    \* was a gcode_send that returned, <<>> otherwise

vars == <<phase, attachment, serial_port, already_init, x_pos, y_pos, z_pos,
          coarse_step, fine_step, wire, last, before, ncalls, caller_opened,
          prev_raw>>

-----------------------------------------------------------------------------
(* Bounds of the model *)

MaxCalls == 2

-----------------------------------------------------------------------------
(* Python values: None, int and float.  A float is held in hundredths      *)
(* (19.5 is PyFloat(1950)); the floats of the model have at most two       *)
(* decimals and every tie that '.1f' has to round is a multiple of 0.25,   *)
(* which a binary double holds exactly.                                    *)

None == [k |-> "None", v |-> 0]
PyInt(n) == [k |-> "int", v |-> n]
PyFloat(h) == [k |-> "float", v |-> h]

IsNone(a) == a.k = "None"
IsInt(a) == a.k = "int"

\* Python truthiness of a number or None: "x if delta else y"
Truthy(a) == ~IsNone(a) /\ a.v # 0

\* a + b on int/float operands; the caller checks that neither is None
PyAdd(a, b) ==
    IF IsInt(a) /\ IsInt(b) THEN PyInt(a.v + b.v)
    ELSE PyFloat((IF IsInt(a) THEN 100 * a.v ELSE a.v)
                 + (IF IsInt(b) THEN 100 * b.v ELSE b.v))

\* a * -1 on an int or a float
PyNeg(a) == [k |-> a.k, v |-> 0 - a.v]

-----------------------------------------------------------------------------
(* Text *)

DigitChars == <<"0", "1", "2", "3", "4", "5", "6", "7", "8", "9">>
IsDigit(c) == c \in {DigitChars[i] : i \in 1..10}
DigitVal(c) == (CHOOSE i \in 1..10 : DigitChars[i] = c) - 1

RECURSIVE Digits(_)
Digits(n) ==
    IF n < 10 THEN <<DigitChars[n + 1]>>
    ELSE Digits(n \div 10) \o <<DigitChars[(n % 10) + 1]>>

\* str(n), f"{n}" for an int
StrInt(n) == IF n < 0 THEN <<"-">> \o Digits(0 - n) ELSE Digits(n)

\* f"{x:.1f}" for a float of h hundredths: round half to even on the tenths
Format1f(h) ==
    LET a == IF h < 0 THEN 0 - h ELSE h
        q == a \div 10
        r == a % 10
        t == IF r > 5 \/ (r = 5 /\ q % 2 = 1) THEN q + 1 ELSE q
    IN  (IF h < 0 THEN <<"-">> ELSE <<>>)
        \o Digits(t \div 10) \o <<".">> \o <<DigitChars[(t % 10) + 1]>>

\* gcode.split(' '): the pieces between single spaces, empty pieces included
RECURSIVE SplitSpace(_, _, _)
SplitSpace(s, cur, acc) ==
    IF s = <<>> THEN Append(acc, cur)
    ELSE IF Head(s) = " " THEN SplitSpace(Tail(s), <<>>, Append(acc, cur))
    ELSE SplitSpace(Tail(s), Append(cur, Head(s)), acc)

Split(s) == SplitSpace(s, <<>>, <<>>)

\* the value of a non-empty run of digits
RECURSIVE DigitsVal(_, _)
DigitsVal(s, acc) ==
    IF s = <<>> THEN acc ELSE DigitsVal(Tail(s), 10 * acc + DigitVal(Head(s)))

AllDigits(s) == s # <<>> /\ \A i \in 1..Len(s) : IsDigit(s[i])

Unsigned(s) == IF s # <<>> /\ Head(s) \in {"-", "+"} THEN Tail(s) ELSE s
Negative(s) == s # <<>> /\ Head(s) = "-"

\* int(s): an optional sign and decimal digits, anything else is a ValueError
IntOk(s) == AllDigits(Unsigned(s))
IntOf(s) ==
    IF Negative(s) THEN 0 - DigitsVal(Unsigned(s), 0) ELSE DigitsVal(Unsigned(s), 0)

\* float(s) on the literals of the model: sign, digits, '.', at most two digits
DotAt(s) == IF \E i \in 1..Len(s) : s[i] = "."
            THEN CHOOSE i \in 1..Len(s) : s[i] = "." /\ \A j \in 1..(i - 1) : s[j] # "."
            ELSE 0
FloatOk(s) ==
    LET u == Unsigned(s)
        d == DotAt(u)
        ip == IF d = 0 THEN u ELSE SubSeq(u, 1, d - 1)
        fp == IF d = 0 THEN <<>> ELSE SubSeq(u, d + 1, Len(u))
    IN  /\ ip \o fp # <<>>
        /\ \A i \in 1..Len(ip) : IsDigit(ip[i])
        /\ \A i \in 1..Len(fp) : IsDigit(fp[i])
        /\ Len(fp) <= 2
FloatOf(s) ==
    LET u == Unsigned(s)
        d == DotAt(u)
        ip == IF d = 0 THEN u ELSE SubSeq(u, 1, d - 1)
        fp == IF d = 0 THEN <<>> ELSE SubSeq(u, d + 1, Len(u))
        fp2 == IF Len(fp) = 0 THEN <<"0", "0">>
               ELSE IF Len(fp) = 1 THEN fp \o <<"0">> ELSE fp
        h == 100 * DigitsVal(ip, 0) + DigitsVal(fp2, 0)
    IN  IF Negative(s) THEN 0 - h ELSE h

-----------------------------------------------------------------------------
(* Library constants *)

POS_HOME == "home"
POS_END_STOP == "end_stop"
POS_BOTTOM == "bottom"
POS_REST == "rest"

ATTACHMENT_GRIPPER == 0
ATTACHMENT_FAN == 1

GCODE_ENABLE_MOTORS == <<"M", "1", "7">>
GCODE_DISABLE_MOTORS == <<"M", "1", "8">>
GCODE_ENABLE_FAN == <<"M", "1", "0", "6">>
GCODE_DISABLE_FAN == <<"M", "1", "0", "7">>
\* "M3 T{}".format(t) and "M5 T{}".format(t)
GCODE_OPEN_GRIPPER(t) == <<"M", "3", " ", "T">> \o StrInt(t)
GCODE_CLOSE_GRIPPER(t) == <<"M", "5", " ", "T">> \o StrInt(t)
\* "G1 X{} Y{} Z{}".format(x_str, y_str, z_str)
GCODE_G1(x_str, y_str, z_str) ==
    <<"G", "1", " ", "X">> \o x_str \o <<" ", "Y">> \o y_str \o <<" ", "Z">> \o z_str

CRLF == <<"\r", "\n">>

-----------------------------------------------------------------------------
(* Exceptions.  The library raises plain Exception objects; they are told  *)
(* apart by their message.                                                 *)

NoExc == "none"
ConfigurationError == "ConfigurationError"                  \* 'No serial port defined'
ConnectionError == "ConnectionError"                        \* 'RobotArm serial port is not opened :('
UnsupportedAttachmentError == "UnsupportedAttachmentError"  \* 'unimplemented attachment type: ...'
DeviceNotFoundError == "DeviceNotFoundError"                \* 'Cannot find USB port :('
TypeError == "TypeError"
ValueError == "ValueError"
IndexError == "IndexError"

\* the outcome of a call on session s: the session afterwards, the exception
\* that left the call (NoExc when it returned) and the value returned
\* that left the call, its message where the model tells messages apart
Return(s, value) == [s |-> s, exc |-> NoExc, ret |-> value, msg |-> <<>>]
Raise(s, e) == [s |-> s, exc |-> e, ret |-> None, msg |-> <<>>]
RaiseMsg(s, e, msg) == [s |-> s, exc |-> e, ret |-> None, msg |-> msg]

-----------------------------------------------------------------------------
(* The serial port (pyserial's serial.Serial, the transport)               *)

NoPort == [none |-> TRUE]
Serial(port, baudrate, timeout, is_open) ==
    [none |-> FALSE, port |-> port, baudrate |-> baudrate, timeout |-> timeout,
     is_open |-> is_open]

\* str.encode("utf-8"): one byte per ASCII character, two for U+00E9
Utf8Char(c) == IF c = "U+00E9" THEN <<"0xC3", "0xA9">> ELSE <<c>>

RECURSIVE Utf8(_)
Utf8(s) == IF s = <<>> THEN <<>> ELSE Utf8Char(Head(s)) \o Utf8(Tail(s))

\* struct.pack(f"<{len(gcode)}s", gcode.encode("utf-8")): the first
\* len(gcode) bytes of the encoding, len counting characters
__encode_gcode(gcode) == SubSeq(Utf8(gcode), 1, Len(gcode))

is_connection_open(s) ==
    IF s.serial_port = NoPort THEN FALSE ELSE s.serial_port.is_open

is_connection_not_open(s) == ~is_connection_open(s)

get_pos(s) == <<s.x_pos, s.y_pos, s.z_pos>>

-----------------------------------------------------------------------------
(* Low-level send and position bookkeeping *)

\* fault: __gcode_send that checks only that a port is configured
gcode_send_unguarded(s, gcode) ==
    IF s.serial_port = NoPort THEN Raise(s, ConfigurationError)
    ELSE LET payload == __encode_gcode(gcode \o CRLF)
         IN  Return([s EXCEPT !.wire = Append(@, payload)], PyInt(Len(payload)))

__gcode_send(s, gcode) ==
    IF s.serial_port = NoPort THEN Raise(s, ConfigurationError)
    ELSE IF is_connection_not_open(s) THEN Raise(s, ConnectionError)
    ELSE LET payload == __encode_gcode(gcode \o CRLF)
         IN  Return([s EXCEPT !.wire = Append(@, payload)], PyInt(Len(payload)))

\* one argument of __update_pos: a str goes through int(), then float()
PyStr(chars) == [k |-> "str", v |-> chars]
CoerceOk(a) == a.k # "str" \/ IntOk(a.v) \/ FloatOk(a.v)
\* fault: a str argument always taken for a float
CoerceFloatOnly(a) == IF a.k # "str" THEN a ELSE PyFloat(FloatOf(a.v))

Coerce(a) ==
    IF a.k # "str" THEN a
    ELSE IF IntOk(a.v) THEN PyInt(IntOf(a.v))
    ELSE PyFloat(FloatOf(a.v))

\* "if x_pos is not None: ... self.__x_pos = x_pos", one axis of __update_pos;
\* r is the outcome of the statements before it
UpdateAxis(r, axis, a) ==
    IF r.exc # NoExc THEN r
    ELSE IF IsNone(a) THEN r
    ELSE IF ~CoerceOk(a) THEN Raise(r.s, ValueError)
    ELSE Return([r.s EXCEPT ![axis] = Coerce(a)], None)

__update_pos(s, x, y, z) ==
    UpdateAxis(UpdateAxis(UpdateAxis(Return(s, None), "x_pos", x), "y_pos", y),
               "z_pos", z)

\* what the lambda of an unknown first character returns
Break == PyStr(<<"b", "r", "e", "a", "k">>)

\* fault: the scan of gcode_send going on past a piece it does not know
ScanSegNoHalt(s, seg) ==
    IF seg = <<>> THEN Raise(s, IndexError)
    ELSE CASE Head(seg) = "X" -> __update_pos(s, PyStr(Tail(seg)), None, None)
           [] Head(seg) = "Y" -> __update_pos(s, None, PyStr(Tail(seg)), None)
           [] Head(seg) = "Z" -> __update_pos(s, None, None, PyStr(Tail(seg)))
           [] OTHER -> Return(s, None)

\* one piece of the command: the lambda chosen by seg[0], applied to seg[1:]
ScanSeg(s, seg) ==
    IF seg = <<>> THEN Raise(s, IndexError)       \* seg[0] of ''
    ELSE CASE Head(seg) = "X" -> __update_pos(s, PyStr(Tail(seg)), None, None)
           [] Head(seg) = "Y" -> __update_pos(s, None, PyStr(Tail(seg)), None)
           [] Head(seg) = "Z" -> __update_pos(s, None, None, PyStr(Tail(seg)))
           [] Head(seg) = "G" -> Return(s, None)
           [] OTHER -> Return(s, Break)

\* the loop of gcode_send over the pieces still to scan
RECURSIVE ScanSegs(_, _)
\* "if ... is not None: break", then the next piece
ScanNext(r, rest) ==
    IF r.exc # NoExc THEN r
    ELSE IF ~IsNone(r.ret) THEN Return(r.s, None)
    ELSE ScanSegs(r.s, rest)

ScanSegs(s, segs) ==
    IF segs = <<>> THEN Return(s, None)
    ELSE ScanNext(ScanSeg(s, Head(segs)), Tail(segs))

\* "return self.__gcode_send(gcode)", reached when the loop raised nothing
SendScanned(r, gcode) == IF r.exc # NoExc THEN r ELSE __gcode_send(r.s, gcode)

gcode_send(s, gcode) == SendScanned(ScanSegs(s, Split(gcode)), gcode)

-----------------------------------------------------------------------------
(* Movement *)

\* fault: every value rendered with one decimal
PosStrAlways1f(a) == Format1f(IF IsInt(a) THEN 100 * a.v ELSE a.v)

\* f"{pos}" if isinstance(pos, int) else f"{pos:.1f}", for an int or a float
PosStr(a) == IF IsInt(a) THEN StrInt(a.v) ELSE Format1f(a.v)

\* fault: gcode_send_pos rendering an Unset axis as str(None)
NoneStr(a) == IF IsNone(a) THEN <<"N", "o", "n", "e">> ELSE PosStr(a)
gcode_send_pos_none_ok(s, x, y, z) ==
    LET x1 == IF IsNone(x) THEN s.x_pos ELSE x
        y1 == IF IsNone(y) THEN s.y_pos ELSE y
        z1 == IF IsNone(z) THEN s.z_pos ELSE z
        u == __update_pos(s, x1, y1, z1)
    IN  __gcode_send(u.s, GCODE_G1(NoneStr(x1), NoneStr(y1), NoneStr(z1)))

\* fault: gcode_send_pos that sends without recording the position
gcode_send_pos_untracked(s, x, y, z) ==
    LET x1 == IF IsNone(x) THEN s.x_pos ELSE x
        y1 == IF IsNone(y) THEN s.y_pos ELSE y
        z1 == IF IsNone(z) THEN s.z_pos ELSE z
    IN  IF IsNone(x1) \/ IsNone(y1) \/ IsNone(z1) THEN Raise(s, TypeError)
        ELSE __gcode_send(s, GCODE_G1(PosStr(x1), PosStr(y1), PosStr(z1)))

gcode_send_pos(s, x, y, z) ==
    LET x1 == IF IsNone(x) THEN s.x_pos ELSE x
        y1 == IF IsNone(y) THEN s.y_pos ELSE y
        z1 == IF IsNone(z) THEN s.z_pos ELSE z
    IN  \* f"{None:.1f}": unsupported format string passed to NoneType.__format__
        IF IsNone(x1) \/ IsNone(y1) \/ IsNone(z1) THEN Raise(s, TypeError)
        ELSE LET u == __update_pos(s, x1, y1, z1)
             IN  __gcode_send(u.s, GCODE_G1(PosStr(x1), PosStr(y1), PosStr(z1)))

gcode_pos_home(s) == gcode_send_pos(s, PyInt(0), PyInt(120), PyInt(120))
gcode_pos_end_stop(s) == gcode_send_pos(s, PyFloat(0), PyFloat(1950), PyFloat(13400))
gcode_pos_bottom(s) == gcode_send_pos(s, PyInt(0), PyInt(100), PyInt(0))
\* fault: the rest preset with y and z exchanged
gcode_pos_rest_swapped(s) == gcode_send_pos(s, PyInt(0), PyInt(70), PyInt(40))
gcode_pos_rest(s) == gcode_send_pos(s, PyInt(0), PyInt(40), PyInt(70))

\* fault: gcode_pos that takes an unknown name for home
gcode_pos_else_home(s, to) ==
    CASE to = POS_END_STOP -> gcode_pos_end_stop(s)
      [] to = POS_BOTTOM -> gcode_pos_bottom(s)
      [] to = POS_REST -> gcode_pos_rest(s)
      [] OTHER -> gcode_pos_home(s)

gcode_pos(s, to) ==
    CASE to = POS_HOME -> gcode_pos_home(s)
      [] to = POS_END_STOP -> gcode_pos_end_stop(s)
      [] to = POS_BOTTOM -> gcode_pos_bottom(s)
      [] to = POS_REST -> gcode_pos_rest(s)
      [] OTHER -> Return(s, PyInt(0))

\* "pos + delta if delta else pos"; None + delta is a TypeError
DeltaFails(pos, delta) == Truthy(delta) /\ IsNone(pos)
\* fault: the delta taken as the new coordinate
DeltaPosAbsolute(pos, delta) == IF Truthy(delta) THEN delta ELSE pos
DeltaPos(pos, delta) == IF Truthy(delta) THEN PyAdd(pos, delta) ELSE pos

gcode_send_pos_delta(s, x_delta, y_delta, z_delta) ==
    IF \/ DeltaFails(s.x_pos, x_delta)
       \/ DeltaFails(s.y_pos, y_delta)
       \/ DeltaFails(s.z_pos, z_delta)
    THEN Raise(s, TypeError)
    ELSE gcode_send_pos(s, DeltaPos(s.x_pos, x_delta), DeltaPos(s.y_pos, y_delta),
                        DeltaPos(s.z_pos, z_delta))

\* (2.2.2) Step movement methods
set_coarse_step(s, val) == Return([s EXCEPT !.coarse_step = val], None)
set_fine_step(s, val) == Return([s EXCEPT !.fine_step = val], None)

gcode_x_coarse_pos(s) == gcode_send_pos_delta(s, s.coarse_step, None, None)
gcode_y_coarse_pos(s) == gcode_send_pos_delta(s, None, s.coarse_step, None)
gcode_z_coarse_pos(s) == gcode_send_pos_delta(s, None, None, s.coarse_step)
gcode_x_coarse_neg(s) == gcode_send_pos_delta(s, PyNeg(s.coarse_step), None, None)
gcode_y_coarse_neg(s) == gcode_send_pos_delta(s, None, PyNeg(s.coarse_step), None)
gcode_z_coarse_neg(s) == gcode_send_pos_delta(s, None, None, PyNeg(s.coarse_step))

gcode_x_fine_pos(s) == gcode_send_pos_delta(s, s.fine_step, None, None)
gcode_y_fine_pos(s) == gcode_send_pos_delta(s, None, s.fine_step, None)
gcode_z_fine_pos(s) == gcode_send_pos_delta(s, None, None, s.fine_step)
gcode_x_fine_neg(s) == gcode_send_pos_delta(s, PyNeg(s.fine_step), None, None)
gcode_y_fine_neg(s) == gcode_send_pos_delta(s, None, PyNeg(s.fine_step), None)
gcode_z_fine_neg(s) == gcode_send_pos_delta(s, None, None, PyNeg(s.fine_step))

-----------------------------------------------------------------------------
(* Motors and attachment *)

gcode_enable_motors(s) == __gcode_send(s, GCODE_ENABLE_MOTORS)
gcode_disable_motors(s) == __gcode_send(s, GCODE_DISABLE_MOTORS)

\* fault: gcode_close_gripper that sends the constant named after it
gcode_close_gripper_by_name(s, t) == __gcode_send(s, GCODE_CLOSE_GRIPPER(t))

gcode_close_gripper(s, t) == __gcode_send(s, GCODE_OPEN_GRIPPER(t))
gcode_open_gripper(s, t) == __gcode_send(s, GCODE_CLOSE_GRIPPER(t))

gcode_enable_fan(s) == __gcode_send(s, GCODE_ENABLE_FAN)
gcode_disable_fan(s) == __gcode_send(s, GCODE_DISABLE_FAN)

\* f"unimplemented attachment type: {self.attachment}"
UnimplementedAttachment(a) ==
    <<"u", "n", "i", "m", "p", "l", "e", "m", "e", "n", "t", "e", "d", " ">>
    \o <<"a", "t", "t", "a", "c", "h", "m", "e", "n", "t", " ", "t", "y", "p", "e", ":", " ">> \o StrInt(a)

\* fault: gcode_attachment_high that treats every other tag as the fan
gcode_attachment_high_else_fan(s) ==
    IF s.attachment = ATTACHMENT_GRIPPER THEN gcode_close_gripper(s, 10)
    ELSE gcode_enable_fan(s)

gcode_attachment_high(s) ==
    IF s.attachment = ATTACHMENT_GRIPPER THEN gcode_close_gripper(s, 10)
    ELSE IF s.attachment = ATTACHMENT_FAN THEN gcode_enable_fan(s)
    ELSE RaiseMsg(s, UnsupportedAttachmentError, UnimplementedAttachment(s.attachment))

gcode_attachment_low(s) ==
    IF s.attachment = ATTACHMENT_GRIPPER THEN gcode_open_gripper(s, 10)
    ELSE IF s.attachment = ATTACHMENT_FAN THEN gcode_disable_fan(s)
    ELSE RaiseMsg(s, UnsupportedAttachmentError, UnimplementedAttachment(s.attachment))

-----------------------------------------------------------------------------
(* Connection state and the initialization sequence *)

\* the statements of _init_seq after the first; r is the outcome so far
InitEndStop(r) == IF r.exc # NoExc THEN r ELSE gcode_pos_end_stop(r.s)
\* fault: a handshake that leaves the attachment step out
InitAttachmentSkipped(r) == r
InitAttachmentLow(r) == IF r.exc # NoExc THEN r ELSE gcode_attachment_low(r.s)
InitDone(r) ==
    IF r.exc # NoExc THEN r ELSE Return([r.s EXCEPT !.already_init = TRUE], None)

\* fault: _init_seq without the __already_init guard
init_seq_unguarded(s) ==
    InitDone(InitAttachmentLow(InitEndStop(gcode_enable_motors(s))))

\* fault: _init_seq that moves to end_stop before it enables the motors
InitMotorsLate(r) == IF r.exc # NoExc THEN r ELSE gcode_enable_motors(r.s)
init_seq_reordered(s) ==
    IF s.already_init THEN Return(s, None)
    ELSE InitDone(InitAttachmentLow(InitMotorsLate(gcode_pos_end_stop(s))))

_init_seq(s) ==
    IF s.already_init THEN Return(s, None)
    ELSE InitDone(InitAttachmentLow(InitEndStop(gcode_enable_motors(s))))

\* serial.Serial.open(): raises SerialException, an OSError, when the port is
\* already open or the device cannot be opened (os_ok false)
SerialOpenRaises(port, os_ok) == port.is_open \/ ~os_ok
SerialOpen(port, os_ok) ==
    IF SerialOpenRaises(port, os_ok) THEN port ELSE [port EXCEPT !.is_open = TRUE]

\* fault: open_connection that lets the OSError of open() reach the caller
open_connection_reraise(s, os_ok) ==
    IF s.serial_port # NoPort
    THEN IF SerialOpenRaises(s.serial_port, os_ok) THEN Raise(s, "OSError")
         ELSE _init_seq([s EXCEPT !.serial_port = SerialOpen(@, os_ok)])
    ELSE Raise(s, ConfigurationError)

\* fault: open_connection that opens the port and leaves the handshake out
open_connection_only_opens(s, os_ok) ==
    IF s.serial_port # NoPort
    THEN Return([s EXCEPT !.serial_port = SerialOpen(@, os_ok)], None)
    ELSE Raise(s, ConfigurationError)

open_connection(s, os_ok) ==
    IF s.serial_port # NoPort
    THEN \* an OSError of open() is printed and swallowed
         _init_seq([s EXCEPT !.serial_port = SerialOpen(@, os_ok)])
    ELSE Raise(s, ConfigurationError)

\* fault: close_connection that also forgets the handshake
close_connection_forgets_init(s) ==
    IF s.serial_port # NoPort
    THEN Return([s EXCEPT !.serial_port.is_open = FALSE, !.already_init = FALSE], None)
    ELSE Raise(s, ConfigurationError)

close_connection(s) ==
    IF s.serial_port # NoPort
    THEN Return([s EXCEPT !.serial_port.is_open = FALSE], None)
    ELSE Raise(s, ConfigurationError)


\* __del__: runs when the object is released, also after __init__ raised
\* fault: a __del__ that leaves the port alone
del_session_leaves_open(s) == Return(s, None)

del_session(s) ==
    IF s.serial_port # NoPort /\ s.serial_port.is_open
    THEN Return([s EXCEPT !.serial_port.is_open = FALSE], None)
    ELSE Return(s, None)

-----------------------------------------------------------------------------
(* Default serial port *)

Lower(c) == CASE c = "U" -> "u" [] c = "S" -> "s" [] c = "B" -> "b" [] OTHER -> c

\* re.compile("usb", flags=re.IGNORECASE).search(device)
UsbRegexSearch(device) ==
    \E i \in 1..(Len(device) - 2) :
        /\ Lower(device[i]) = "u"
        /\ Lower(device[i + 1]) = "s"
        /\ Lower(device[i + 2]) = "b"

\* reduce(lambda acc, val: val, filter(usb_regex.search, ports)): the last
\* match; reduce() of an empty iterable with no initial value is a TypeError
get_default_serial_port(ports) ==
    LET found == SelectSeq(ports, UsbRegexSearch)
    IN  IF found = <<>> THEN [exc |-> TypeError, ser |-> NoPort]
        ELSE [exc |-> NoExc, ser |-> Serial(found[Len(found)], 9600, 2, FALSE)]

-----------------------------------------------------------------------------
(* Construction *)

\* the fields as __init__ sets them before it looks at the serial port
NewSession(a, sp) ==
    [attachment |-> a, serial_port |-> sp, already_init |-> FALSE,
     x_pos |-> None, y_pos |-> None, z_pos |-> None,
     coarse_step |-> PyInt(20), fine_step |-> PyInt(5), wire |-> <<>>]

\* fault: __init__ that runs the handshake only through open_connection
init_session_start_only(a, sp, use_default_serial_port, start_connection, ports, os_ok) ==
    LET s0 == NewSession(a, sp)
        d == get_default_serial_port(ports)
        discover == sp = NoPort /\ use_default_serial_port
    IN  IF discover /\ d.exc # NoExc THEN Raise(s0, d.exc)
        ELSE LET s1 == IF discover THEN [s0 EXCEPT !.serial_port = d.ser] ELSE s0
             IN  IF start_connection THEN open_connection(s1, os_ok)
                 ELSE Return(s1, None)

init_session(a, sp, use_default_serial_port, start_connection, ports, os_ok) ==
    LET s0 == NewSession(a, sp)
        d == get_default_serial_port(ports)
        discover == sp = NoPort /\ use_default_serial_port
    IN  IF discover /\ d.exc # NoExc THEN Raise(s0, d.exc)
        ELSE LET s1 == IF discover THEN [s0 EXCEPT !.serial_port = d.ser] ELSE s0
             IN  IF is_connection_open(s1) THEN _init_seq(s1)
                 ELSE IF start_connection THEN open_connection(s1, os_ok)
                 ELSE Return(s1, None)

-----------------------------------------------------------------------------
(* The inputs of the model *)

Attachments == {ATTACHMENT_GRIPPER, ATTACHMENT_FAN, 2, 17}

COM1 == <<"C", "O", "M", "1">>
TtyUSB0 == <<"t", "t", "y", "U", "S", "B", "0">>
CuUsbserial == <<"c", "u", ".", "u", "s", "b", "s", "e", "r", "i", "a", "l">>

\* what list_ports.comports() may report
PortLists == {<<>>, <<COM1>>, <<CuUsbserial, COM1>>, <<TtyUSB0, COM1, CuUsbserial>>}

\* the serial_port argument of __init__: none, or the caller's port, closed or open
SuppliedPorts == {NoPort, Serial(COM1, 115200, 1, FALSE), Serial(COM1, 115200, 1, TRUE)}

AbsArgs ==
    {<<PyInt(0), PyInt(120), PyInt(120)>>,
     <<None, None, PyFloat(1950)>>,
     <<PyFloat(225), PyFloat(-4), PyInt(-3)>>,
     <<None, None, None>>}

DeltaArgs ==
    {<<None, None, PyInt(0)>>,
     <<None, PyFloat(50), PyInt(-2)>>,
     <<None, None, None>>}

PresetArgs == {POS_HOME, POS_END_STOP, POS_BOTTOM, POS_REST, "park"}

StepVals == {PyInt(10)}

GripperSteps == {3}

RawCmds ==
    {<<"G", "1", " ", "X", "1", "0", " ", "Y", "2", "0", " ", "?", " ", "Z", "3", "0">>,
     <<"G", "1", " ", "X", "1", "0", ".", "0", " ", "Z", "-", "2", ".", "2", "5">>,
     <<"Y", "1", " ", "X", "2", " ", "X", "3">>,
     <<"G", "1", " ", "Y", "4", " ", "X">>,
     <<"G", "1", " ", " ", "Y", "7">>,
     <<"G", "1", " ", "Z", "8", " ", "U+00E9">>,
     <<"G", "1", " ", "X", "+", "7", " ", "Y", "-", "0", ".", "5">>}

StepMethods ==
    {"gcode_x_coarse_pos", "gcode_y_coarse_pos", "gcode_z_coarse_pos",
     "gcode_x_coarse_neg", "gcode_y_coarse_neg", "gcode_z_coarse_neg",
     "gcode_x_fine_pos", "gcode_y_fine_pos", "gcode_z_fine_pos",
     "gcode_x_fine_neg", "gcode_y_fine_neg", "gcode_z_fine_neg"}

step_method(s, m) ==
    CASE m = "gcode_x_coarse_pos" -> gcode_x_coarse_pos(s)
      [] m = "gcode_y_coarse_pos" -> gcode_y_coarse_pos(s)
      [] m = "gcode_z_coarse_pos" -> gcode_z_coarse_pos(s)
      [] m = "gcode_x_coarse_neg" -> gcode_x_coarse_neg(s)
      [] m = "gcode_y_coarse_neg" -> gcode_y_coarse_neg(s)
      [] m = "gcode_z_coarse_neg" -> gcode_z_coarse_neg(s)
      [] m = "gcode_x_fine_pos" -> gcode_x_fine_pos(s)
      [] m = "gcode_y_fine_pos" -> gcode_y_fine_pos(s)
      [] m = "gcode_z_fine_pos" -> gcode_z_fine_pos(s)
      [] m = "gcode_x_fine_neg" -> gcode_x_fine_neg(s)
      [] m = "gcode_y_fine_neg" -> gcode_y_fine_neg(s)
      [] m = "gcode_z_fine_neg" -> gcode_z_fine_neg(s)

-----------------------------------------------------------------------------
(* The state machine *)

Self ==
    [attachment |-> attachment, serial_port |-> serial_port,
     already_init |-> already_init, x_pos |-> x_pos, y_pos |-> y_pos, z_pos |-> z_pos,
     coarse_step |-> coarse_step, fine_step |-> fine_step, wire |-> wire]

\* the raw command the last call sent
SentRaw == IF last.op = "gcode_send" /\ last.exc = NoExc THEN last.arg[1] ELSE <<>>

Commit(op, arg, r) ==
    /\ attachment' = r.s.attachment
    /\ serial_port' = r.s.serial_port
    /\ already_init' = r.s.already_init
    /\ x_pos' = r.s.x_pos
    /\ y_pos' = r.s.y_pos
    /\ z_pos' = r.s.z_pos
    /\ coarse_step' = r.s.coarse_step
    /\ fine_step' = r.s.fine_step
    /\ wire' = r.s.wire
    /\ last' = [op |-> op, arg |-> arg, exc |-> r.exc, ret |-> r.ret, msg |-> r.msg]
    /\ before' = Self
    /\ prev_raw' = SentRaw
    /\ UNCHANGED caller_opened

\* a method call on the live session
Call(op, arg, r) ==
    /\ phase = "live"
    /\ ncalls < MaxCalls
    /\ Commit(op, arg, r)
    /\ ncalls' = ncalls + 1
    /\ UNCHANGED phase

Init ==
    /\ phase = "new"
    /\ attachment = ATTACHMENT_GRIPPER
    /\ serial_port = NoPort
    /\ already_init = FALSE
    /\ x_pos = None
    /\ y_pos = None
    /\ z_pos = None
    /\ coarse_step = PyInt(20)
    /\ fine_step = PyInt(5)
    /\ wire = <<>>
    /\ last = [op |-> "none", arg |-> <<>>, exc |-> NoExc, ret |-> None,
            msg |-> <<>>]
    /\ before = NewSession(ATTACHMENT_GRIPPER, NoPort)
    /\ ncalls = 0
    /\ caller_opened = FALSE
    /\ prev_raw = <<>>

Construct ==
    \E a \in Attachments, sp \in SuppliedPorts, ud \in BOOLEAN, sc \in BOOLEAN,
       ports \in PortLists, os_ok \in BOOLEAN :
        /\ phase = "new"
        /\ Commit("__init__", <<a, sp, ud, sc, ports, os_ok>>,
                  init_session(a, sp, ud, sc, ports, os_ok))
        /\ phase' = IF last'.exc = NoExc THEN "live" ELSE "failed"
        /\ UNCHANGED ncalls

Del ==
    /\ phase \in {"live", "failed"}
    /\ ncalls < MaxCalls
    /\ Commit("__del__", <<>>, del_session(Self))
    /\ phase' = "deleted"
    /\ ncalls' = ncalls + 1

\* the caller opens the port it handed to the session, on the port object itself
PortOpenedByCaller ==
    /\ phase = "live"
    /\ ncalls < MaxCalls
    /\ serial_port # NoPort
    /\ ~serial_port.is_open
    /\ serial_port' = [serial_port EXCEPT !.is_open = TRUE]
    /\ last' = [op |-> "serial_port.open", arg |-> <<>>, exc |-> NoExc, ret |-> None,
            msg |-> <<>>]
    /\ before' = Self
    /\ ncalls' = ncalls + 1
    /\ caller_opened' = TRUE
    /\ prev_raw' = SentRaw
    /\ UNCHANGED <<phase, attachment, already_init, x_pos, y_pos, z_pos,
                   coarse_step, fine_step, wire>>

OpenConnection ==
    \E os_ok \in BOOLEAN :
        Call("open_connection", <<os_ok>>, open_connection(Self, os_ok))

CloseConnection == Call("close_connection", <<>>, close_connection(Self))

InitSeq == Call("_init_seq", <<>>, _init_seq(Self))

AttachmentHigh == Call("gcode_attachment_high", <<>>, gcode_attachment_high(Self))

AttachmentLow == Call("gcode_attachment_low", <<>>, gcode_attachment_low(Self))

EnableMotors == Call("gcode_enable_motors", <<>>, gcode_enable_motors(Self))

DisableMotors == Call("gcode_disable_motors", <<>>, gcode_disable_motors(Self))

CloseGripper ==
    \E t \in GripperSteps : Call("gcode_close_gripper", <<t>>, gcode_close_gripper(Self, t))

OpenGripper ==
    \E t \in GripperSteps : Call("gcode_open_gripper", <<t>>, gcode_open_gripper(Self, t))

EnableFan == Call("gcode_enable_fan", <<>>, gcode_enable_fan(Self))

DisableFan == Call("gcode_disable_fan", <<>>, gcode_disable_fan(Self))

SendPos ==
    \E a \in AbsArgs : Call("gcode_send_pos", a, gcode_send_pos(Self, a[1], a[2], a[3]))

Pos == \E to \in PresetArgs : Call("gcode_pos", <<to>>, gcode_pos(Self, to))

SendPosDelta ==
    \E d \in DeltaArgs :
        Call("gcode_send_pos_delta", d, gcode_send_pos_delta(Self, d[1], d[2], d[3]))

Step == \E m \in StepMethods : Call(m, <<>>, step_method(Self, m))

GcodeSend == \E g \in RawCmds : Call("gcode_send", <<g>>, gcode_send(Self, g))

SetCoarseStep ==
    \E val \in StepVals : Call("set_coarse_step", <<val>>, set_coarse_step(Self, val))

SetFineStep ==
    \E val \in StepVals : Call("set_fine_step", <<val>>, set_fine_step(Self, val))

Next ==
    \/ Construct
    \/ Del
    \/ PortOpenedByCaller
    \/ OpenConnection
    \/ CloseConnection
    \/ InitSeq
    \/ AttachmentHigh
    \/ AttachmentLow
    \/ EnableMotors
    \/ DisableMotors
    \/ CloseGripper
    \/ OpenGripper
    \/ EnableFan
    \/ DisableFan
    \/ SendPos
    \/ Pos
    \/ SendPosDelta
    \/ Step
    \/ GcodeSend
    \/ SetCoarseStep
    \/ SetFineStep

Spec == Init /\ [][Next]_vars

-----------------------------------------------------------------------------
(* Vocabulary of the properties *)

GripperFanMethods ==
    {"gcode_close_gripper", "gcode_open_gripper", "gcode_enable_fan", "gcode_disable_fan"}
MotorMethods == {"gcode_enable_motors", "gcode_disable_motors"}
AttachmentMethods == {"gcode_attachment_high", "gcode_attachment_low"}
MoveMethods == {"gcode_send_pos", "gcode_send_pos_delta", "gcode_pos"} \cup StepMethods
SendMethods ==
    {"gcode_send"} \cup MoveMethods \cup AttachmentMethods \cup MotorMethods
    \cup GripperFanMethods

Presets == {POS_HOME, POS_END_STOP, POS_BOTTOM, POS_REST}

Called(op) == last.op = op
WasOpen == is_connection_open(before)
WasAbsent == before.serial_port = NoPort
WasClosed == ~WasAbsent /\ ~before.serial_port.is_open
PosNow == <<x_pos, y_pos, z_pos>>
PosBefore == <<before.x_pos, before.y_pos, before.z_pos>>
AllSetBefore == \A i \in 1..3 : ~IsNone(PosBefore[i])
NewWrites == SubSeq(wire, Len(before.wire) + 1, Len(wire))
WroteNothing == wire = before.wire
Unchanged == Self = before

\* the pieces of a raw command, the index of the first piece that stops the
\* scan (one past the end when none does), and whether every piece scanned
\* before it is non-empty and, for an axis, a number
Halts(seg) == seg # <<>> /\ Head(seg) \notin {"X", "Y", "Z", "G"}
HaltIdx(segs) ==
    IF \E i \in 1..Len(segs) : Halts(segs[i])
    THEN CHOOSE i \in 1..Len(segs) : Halts(segs[i]) /\ \A j \in 1..(i - 1) : ~Halts(segs[j])
    ELSE Len(segs) + 1
ScanSucceeds(segs) ==
    \A i \in 1..(HaltIdx(segs) - 1) :
        /\ segs[i] # <<>>
        /\ Head(segs[i]) \in {"X", "Y", "Z"} => IntOk(Tail(segs[i])) \/ FloatOk(Tail(segs[i]))

\* the call gets as far as the private encode-and-transmit step
ReachesTransmit ==
    CASE Called("gcode_send") -> ScanSucceeds(Split(last.arg[1]))
      [] Called("gcode_send_pos") ->
            \A i \in 1..3 : ~IsNone(last.arg[i]) \/ ~IsNone(PosBefore[i])
      [] Called("gcode_send_pos_delta") \/ last.op \in StepMethods -> AllSetBefore
      [] Called("gcode_pos") -> last.arg[1] \in Presets
      [] last.op \in AttachmentMethods ->
            before.attachment \in {ATTACHMENT_GRIPPER, ATTACHMENT_FAN}
      [] OTHER -> TRUE

-----------------------------------------------------------------------------
(* C1 *)

\* C1 as stated: every send operation fails with ConfigurationError when no
\* transport is configured and with ConnectionError when the transport is
\* configured but not open, and writes nothing.  (Preset names are the four
\* recognized ones.)
C1_AsStated ==
    (last.op \in SendMethods /\ (Called("gcode_pos") => last.arg[1] \in Presets))
    => /\ WasAbsent => last.exc = ConfigurationError /\ WroteNothing
       /\ WasClosed => last.exc = ConnectionError /\ WroteNothing

\* C1, amended: a send operation called without an open transport never
\* writes; when it gets as far as the encode-and-transmit step it fails with
\* ConfigurationError (no transport) or ConnectionError (transport not open);
\* the calls that do not get that far fail earlier, with TypeError (an Unset
\* axis to render or to add to), ValueError or IndexError (a malformed piece
\* of a raw command) or UnsupportedAttachmentError, or are the no-op of an
\* unrecognized preset name.
C1_NoTransportNoWrite ==
    (last.op \in SendMethods /\ ~WasOpen)
    => /\ WroteNothing
       /\ ReachesTransmit =>
            last.exc = IF WasAbsent THEN ConfigurationError ELSE ConnectionError
       /\ ~ReachesTransmit =>
            \/ last.exc \in {TypeError, ValueError, IndexError, UnsupportedAttachmentError}
            \/ Called("gcode_pos") /\ last.exc = NoExc /\ Unchanged

C1_Witness ==
    /\ Called("gcode_pos") /\ last.arg[1] = POS_HOME
    /\ WasClosed
    /\ last.exc = ConnectionError
    /\ WroteNothing

-----------------------------------------------------------------------------
(* C2 *)

\* C2: a move or a raw command that fails because the transport is absent or
\* not open leaves the tracked position as it was before the call.
C2_PositionOnlyOnSuccess ==
    (last.op \in MoveMethods \cup {"gcode_send"}
        /\ last.exc \in {ConfigurationError, ConnectionError})
    => PosNow = PosBefore

-----------------------------------------------------------------------------
(* C3 *)

\* C3: __already_init is never reset; once it is set, a call of _init_seq
\* returns without writing and without changing the session, and
\* open_connection writes nothing and changes nothing but the open state of
\* the port.
C3_InitOnce ==
    /\ (phase # "new" /\ last.op # "__init__" /\ before.already_init) => already_init
    /\ (Called("_init_seq") /\ before.already_init)
       => last.exc = NoExc /\ WroteNothing /\ Unchanged
    /\ (Called("open_connection") /\ before.already_init)
       => /\ last.exc = NoExc
          /\ WroteNothing
          /\ [Self EXCEPT !.serial_port = before.serial_port] = before
          /\ [serial_port EXCEPT !.is_open = before.serial_port.is_open]
                = before.serial_port

\* an initialized session, closed and opened again: the handshake is skipped
C3_Witness ==
    /\ Called("open_connection")
    /\ before.already_init
    /\ WasClosed
    /\ is_connection_open(Self)
    /\ WroteNothing
    /\ Len(wire) = 3

-----------------------------------------------------------------------------
(* C4 *)

Line_M17 == <<"M", "1", "7", "\r", "\n">>
Line_EndStop ==
    <<"G", "1", " ", "X", "0", ".", "0", " ", "Y", "1", "9", ".", "5", " ", "Z", "1", "3", "4", ".", "0", "\r", "\n">>
Line_M3T10 == <<"M", "3", " ", "T", "1", "0", "\r", "\n">>
Line_M5T10 == <<"M", "5", " ", "T", "1", "0", "\r", "\n">>
Line_M106 == <<"M", "1", "0", "6", "\r", "\n">>
Line_M107 == <<"M", "1", "0", "7", "\r", "\n">>

TableHigh(a) == IF a = ATTACHMENT_GRIPPER THEN Line_M3T10 ELSE Line_M106
TableLow(a) == IF a = ATTACHMENT_GRIPPER THEN Line_M5T10 ELSE Line_M107
GripperOrFan == attachment \in {ATTACHMENT_GRIPPER, ATTACHMENT_FAN}

\* the initialization sequence was entered on a session not yet initialized
\* whose transport was open: called directly, from open_connection after the
\* port opened (or was open already), or from __init__
InitRanOpen ==
    \/ Called("_init_seq") /\ ~before.already_init /\ WasOpen
    \/ Called("open_connection") /\ ~before.already_init /\ is_connection_open(Self)
    \/ Called("__init__") /\ is_connection_open(Self)

\* C4: run on an uninitialized session with an open transport (Gripper or
\* Fan), the initialization sequence writes exactly M17, the end_stop move and
\* the attachment's low command, in this order; the session is then
\* initialized at (0.0, 19.5, 134.0); and in no call does __already_init
\* become true without these three writes.
C4_Handshake ==
    /\ (InitRanOpen /\ GripperOrFan)
       => /\ last.exc = NoExc
          /\ NewWrites = <<Line_M17, Line_EndStop, TableLow(attachment)>>
          /\ already_init
          /\ PosNow = <<PyFloat(0), PyFloat(1950), PyFloat(13400)>>
    /\ (already_init /\ ~before.already_init)
       => /\ Len(NewWrites) = 3
          /\ NewWrites[3] = TableLow(attachment)

C4_Witness ==
    /\ Called("open_connection")
    /\ WasClosed
    /\ ~before.already_init
    /\ attachment = ATTACHMENT_FAN
    /\ already_init
    /\ wire = <<Line_M17, Line_EndStop, Line_M107>>

-----------------------------------------------------------------------------
(* C5 *)

\* open_connection was called with a configured, closed port and the
\* transport-level open failed
OpenFailed ==
    Called("open_connection") /\ WasClosed /\ last.arg[1] = FALSE

\* C5 as stated: open() never raises when the transport-level open fails, and
\* (on a Gripper or Fan session) it raises only ConfigurationError, only when
\* no transport is configured.
C5_AsStated ==
    /\ OpenFailed => last.exc = NoExc /\ ~is_connection_open(Self)
    /\ (Called("open_connection") /\ GripperOrFan /\ last.exc # NoExc)
       => last.exc = ConfigurationError /\ WasAbsent

\* C5, amended: the transport error never reaches the caller and the
\* initialization sequence is still invoked, on the closed transport: on an
\* initialized session it is skipped and open() returns normally, on an
\* uninitialized one its first send fails and open() raises ConnectionError;
\* either way nothing is written, the session is unchanged and is_open() is
\* false.  open() raises ConfigurationError exactly when no transport is
\* configured.
C5_OpenFailSoft ==
    /\ OpenFailed
       => /\ last.exc = IF before.already_init THEN NoExc ELSE ConnectionError
          /\ ~is_connection_open(Self)
          /\ WroteNothing
          /\ Unchanged
    /\ Called("open_connection")
       => /\ last.exc \in {NoExc, ConfigurationError, ConnectionError,
                          UnsupportedAttachmentError}
          /\ last.exc = ConfigurationError <=> WasAbsent

C5_Witness ==
    /\ OpenFailed
    /\ ~before.already_init
    /\ last.exc = ConnectionError
    /\ ~is_connection_open(Self)

-----------------------------------------------------------------------------
(* C6 *)

\* C6: with an open transport, activate and deactivate each write exactly the
\* one command of the table (Gripper M3 T10 / M5 T10, Fan M106 / M107) and
\* change neither the tracked position nor the initialized flag; a
\* deactivate that comes when the activate command is the last thing written
\* leaves that pair, in that order, at the end of the wire.
C6_AttachmentTable ==
    /\ (Called("gcode_attachment_high") /\ WasOpen /\ GripperOrFan)
       => /\ last.exc = NoExc
          /\ NewWrites = <<TableHigh(attachment)>>
          /\ last.ret = PyInt(Len(TableHigh(attachment)))
    /\ (Called("gcode_attachment_low") /\ WasOpen /\ GripperOrFan)
       => /\ last.exc = NoExc
          /\ NewWrites = <<TableLow(attachment)>>
          /\ last.ret = PyInt(Len(TableLow(attachment)))
    /\ last.op \in AttachmentMethods
       => /\ PosNow = PosBefore
          /\ already_init = before.already_init
    /\ (Called("gcode_attachment_low") /\ last.exc = NoExc /\ GripperOrFan
            /\ before.wire # <<>>
            /\ before.wire[Len(before.wire)] = TableHigh(attachment))
       => SubSeq(wire, Len(wire) - 1, Len(wire))
            = <<TableHigh(attachment), TableLow(attachment)>>

C6_Witness ==
    /\ Called("gcode_attachment_low")
    /\ attachment = ATTACHMENT_GRIPPER
    /\ already_init
    /\ Len(wire) >= 2
    /\ SubSeq(wire, Len(wire) - 1, Len(wire)) = <<Line_M3T10, Line_M5T10>>

-----------------------------------------------------------------------------
(* C7 *)

Cmd_Example ==
    <<"G", "1", " ", "X", "1", "0", " ", "Y", "2", "0", " ", "?", " ", "Z", "3", "0">>
Line_Example ==
    <<"G", "1", " ", "X", "1", "0", " ", "Y", "2", "0", " ", "?", " ", "Z", "3", "0", "\r", "\n">>

\* the pieces of axis c scanned before the halt, and the number a suffix denotes
AxisIdx(segs, c) ==
    {i \in 1..(HaltIdx(segs) - 1) : segs[i] # <<>> /\ Head(segs[i]) = c}
LastIdx(S) == CHOOSE i \in S : \A j \in S : j <= i
NumberOf(suffix) ==
    IF IntOk(suffix) THEN PyInt(IntOf(suffix)) ELSE PyFloat(FloatOf(suffix))
ScannedValue(segs, c, prior) ==
    IF AxisIdx(segs, c) = {} THEN prior
    ELSE NumberOf(Tail(segs[LastIdx(AxisIdx(segs, c))]))

\* C7: gcode_send sets each axis from the last piece of that axis that comes
\* before the first piece starting with something other than X, Y, Z or G;
\* an axis without such a piece keeps its value; the whole command, with
\* CR LF, goes to the transport wherever the scan stopped.  A scan that meets
\* an empty piece or a non-numeric axis suffix raises and nothing is sent.
C7_RawScan ==
    Called("gcode_send") =>
        LET cmd == last.arg[1]
            segs == Split(cmd)
        IN  /\ ScanSucceeds(segs)
               => /\ x_pos = ScannedValue(segs, "X", before.x_pos)
                  /\ y_pos = ScannedValue(segs, "Y", before.y_pos)
                  /\ z_pos = ScannedValue(segs, "Z", before.z_pos)
                  /\ WasOpen => /\ last.exc = NoExc
                                /\ NewWrites = <<__encode_gcode(cmd \o CRLF)>>
                  /\ ~WasOpen => WroteNothing
            /\ ~ScanSucceeds(segs)
               => last.exc \in {ValueError, IndexError} /\ WroteNothing
            /\ cmd = Cmd_Example
               => /\ PosNow = <<PyInt(10), PyInt(20), before.z_pos>>
                  /\ WasOpen => NewWrites = <<Line_Example>>

C7_Witness ==
    /\ Called("gcode_send")
    /\ last.arg[1] = Cmd_Example
    /\ WasOpen
    /\ before.z_pos = PyFloat(13400)
    /\ PosNow = <<PyInt(10), PyInt(20), PyFloat(13400)>>
    /\ wire[Len(wire)] = Line_Example

-----------------------------------------------------------------------------
(* C8 *)

Val(a) == IF IsInt(a) THEN 100 * a.v ELSE a.v
Abs(n) == IF n < 0 THEN 0 - n ELSE n

\* text f is a rendering of number a: an integer literal equal to an int, or
\* for a float a literal with exactly one digit after the point that is the
\* value rounded to a tenth
Renders(f, a) ==
    IF IsInt(a) THEN IntOk(f) /\ Head(f) # "+" /\ IntOf(f) = a.v
    ELSE LET u == Unsigned(f)
         IN  /\ FloatOk(f)
             /\ Head(f) # "+"
             /\ Len(u) >= 3
             /\ DotAt(u) = Len(u) - 1
             /\ Abs(FloatOf(f) - a.v) <= 5
             /\ Negative(f) <=> a.v < 0

\* payload is the line 'G1 X<x> Y<y> Z<z>' CR LF
IsG1Line(payload, x, y, z) ==
    /\ Len(payload) > 2
    /\ SubSeq(payload, Len(payload) - 1, Len(payload)) = CRLF
    /\ LET f == Split(SubSeq(payload, 1, Len(payload) - 2))
       IN  /\ Len(f) = 4
           /\ f[1] = <<"G", "1">>
           /\ \A i \in 2..4 : Len(f[i]) >= 2
           /\ Head(f[2]) = "X" /\ Renders(Tail(f[2]), x)
           /\ Head(f[3]) = "Y" /\ Renders(Tail(f[3]), y)
           /\ Head(f[4]) = "Z" /\ Renders(Tail(f[4]), z)

Resolved(i) == IF IsNone(last.arg[i]) THEN PosBefore[i] ELSE last.arg[i]

Line_Home ==
    <<"G", "1", " ", "X", "0", " ", "Y", "1", "2", "0", " ", "Z", "1", "2", "0", "\r", "\n">>
Line_Z195 ==
    <<"G", "1", " ", "X", "0", ".", "0", " ", "Y", "1", "9", ".", "5", " ", "Z", "1", "9", ".", "5", "\r", "\n">>

\* C8: on an open transport with every tracked axis set, gcode_send_pos
\* writes the single line G1 X<x> Y<y> Z<z> CR LF of the resolved
\* coordinates (an omitted axis takes its tracked value), an int without a
\* decimal point and a float with exactly one digit after it, and the tracked
\* position becomes the resolved coordinates; gcode_send_pos(0, 120, 120)
\* writes exactly 'G1 X0 Y120 Z120\r\n' and leaves (0, 120, 120).
C8_AbsoluteMove ==
    /\ (Called("gcode_send_pos") /\ WasOpen /\ AllSetBefore)
       => /\ last.exc = NoExc
          /\ Len(NewWrites) = 1
          /\ IsG1Line(NewWrites[1], Resolved(1), Resolved(2), Resolved(3))
          /\ PosNow = <<Resolved(1), Resolved(2), Resolved(3)>>
          /\ last.ret = PyInt(Len(NewWrites[1]))
    /\ (Called("gcode_send_pos") /\ WasOpen
            /\ last.arg = <<PyInt(0), PyInt(120), PyInt(120)>>)
       => /\ NewWrites = <<Line_Home>>
          /\ PosNow = <<PyInt(0), PyInt(120), PyInt(120)>>
    /\ (Called("gcode_send_pos") /\ WasOpen /\ AllSetBefore
            /\ last.arg[3] = PyFloat(1950))
       => Split(NewWrites[1])[4] = <<"Z", "1", "9", ".", "5", "\r", "\n">>

C8_Witness ==
    /\ Called("gcode_send_pos")
    /\ last.arg = <<None, None, PyFloat(1950)>>
    /\ WasOpen
    /\ PosBefore = <<PyFloat(0), PyFloat(1950), PyFloat(13400)>>
    /\ NewWrites = <<Line_Z195>>
    /\ PosNow = <<PyFloat(0), PyFloat(1950), PyFloat(1950)>>

-----------------------------------------------------------------------------
(* C9 *)

\* gcode_send_pos was called leaving out an axis whose tracked value is Unset
OmitsUnsetAxis ==
    /\ Called("gcode_send_pos")
    /\ \E i \in 1..3 : IsNone(last.arg[i]) /\ IsNone(PosBefore[i])

\* C9 as stated: such a call does not fail on that account; it goes on to the
\* transport checks and, on an open transport, to the transmission.
C9_AsStated ==
    OmitsUnsetAxis
    => /\ last.exc \in {NoExc, ConfigurationError, ConnectionError}
       /\ WasOpen => last.exc = NoExc /\ Len(NewWrites) = 1

\* C9, amended: such a call fails on that account: rendering the Unset value
\* raises TypeError before the position is updated and before the transport
\* is looked at, so whatever the transport state nothing is written and the
\* session is unchanged.
C9_UnsetAxisTypeError ==
    OmitsUnsetAxis
    => /\ last.exc = TypeError
       /\ WroteNothing
       /\ Unchanged

C9_Witness ==
    /\ OmitsUnsetAxis
    /\ WasOpen
    /\ last.arg = <<None, None, PyFloat(1950)>>
    /\ last.exc = TypeError
    /\ wire = <<>>

-----------------------------------------------------------------------------
(* C10 *)

\* the axis, step size and direction of each step method
StepOf(m) ==
    CASE m = "gcode_x_coarse_pos" -> [axis |-> 1, size |-> "coarse", sign |-> 1]
      [] m = "gcode_y_coarse_pos" -> [axis |-> 2, size |-> "coarse", sign |-> 1]
      [] m = "gcode_z_coarse_pos" -> [axis |-> 3, size |-> "coarse", sign |-> 1]
      [] m = "gcode_x_coarse_neg" -> [axis |-> 1, size |-> "coarse", sign |-> -1]
      [] m = "gcode_y_coarse_neg" -> [axis |-> 2, size |-> "coarse", sign |-> -1]
      [] m = "gcode_z_coarse_neg" -> [axis |-> 3, size |-> "coarse", sign |-> -1]
      [] m = "gcode_x_fine_pos" -> [axis |-> 1, size |-> "fine", sign |-> 1]
      [] m = "gcode_y_fine_pos" -> [axis |-> 2, size |-> "fine", sign |-> 1]
      [] m = "gcode_z_fine_pos" -> [axis |-> 3, size |-> "fine", sign |-> 1]
      [] m = "gcode_x_fine_neg" -> [axis |-> 1, size |-> "fine", sign |-> -1]
      [] m = "gcode_y_fine_neg" -> [axis |-> 2, size |-> "fine", sign |-> -1]
      [] m = "gcode_z_fine_neg" -> [axis |-> 3, size |-> "fine", sign |-> -1]

\* axis i moved from prior by delta: the sum, an int only when both are
MovedBy(i, delta) ==
    /\ Val(PosNow[i]) = Val(PosBefore[i]) + Val(delta)
    /\ IsInt(PosNow[i]) <=> IsInt(PosBefore[i]) /\ IsInt(delta)

\* C10: with every tracked axis set and an open transport,
\* gcode_send_pos_delta writes one G1 line of the new position, in which an
\* axis with a non-zero delta is prior + delta and an axis with a zero or
\* omitted delta is its prior value; each step method is such a move of one
\* axis by plus or minus coarse_step or fine_step, the other two axes held
\* (so k steps in a row move that axis by k steps).
C10_RelativeMove ==
    /\ (Called("gcode_send_pos_delta") /\ WasOpen /\ AllSetBefore)
       => /\ last.exc = NoExc
          /\ Len(NewWrites) = 1
          /\ IsG1Line(NewWrites[1], x_pos, y_pos, z_pos)
          /\ \A i \in 1..3 :
                IF Truthy(last.arg[i]) THEN MovedBy(i, last.arg[i])
                ELSE PosNow[i] = PosBefore[i]
    /\ (last.op \in StepMethods /\ WasOpen /\ AllSetBefore)
       => LET st == StepOf(last.op)
              step == IF st.size = "coarse" THEN before.coarse_step ELSE before.fine_step
          IN  /\ last.exc = NoExc
              /\ Len(NewWrites) = 1
              /\ IsG1Line(NewWrites[1], x_pos, y_pos, z_pos)
              /\ Val(PosNow[st.axis]) = Val(PosBefore[st.axis]) + st.sign * Val(step)
              /\ \A i \in 1..3 : i # st.axis => PosNow[i] = PosBefore[i]

Line_Z114 ==
    <<"G", "1", " ", "X", "0", ".", "0", " ", "Y", "1", "9", ".", "5", " ", "Z", "1", "1", "4", ".", "0", "\r", "\n">>
Line_Z94 ==
    <<"G", "1", " ", "X", "0", ".", "0", " ", "Y", "1", "9", ".", "5", " ", "Z", "9", "4", ".", "0", "\r", "\n">>

\* two z-coarse-negative steps in a row from the end_stop position
C10_Witness ==
    /\ Called("gcode_z_coarse_neg")
    /\ last.exc = NoExc
    /\ coarse_step = PyInt(20)
    /\ Len(wire) = 5
    /\ wire[3] = Line_M5T10
    /\ wire[4] = Line_Z114
    /\ wire[5] = Line_Z94
    /\ PosBefore = <<PyFloat(0), PyFloat(1950), PyFloat(11400)>>
    /\ PosNow = <<PyFloat(0), PyFloat(1950), PyFloat(9400)>>

-----------------------------------------------------------------------------
(* C11 *)

UnsupportedTag == before.attachment \notin {ATTACHMENT_GRIPPER, ATTACHMENT_FAN}

\* C11: gcode_attachment_high or gcode_attachment_low on a session whose
\* attachment is neither the gripper nor the fan raises the "unimplemented
\* attachment type" exception whose message ends with the tag, writes nothing
\* and leaves every field of the session as it was, whether the port is
\* absent, closed or open.
C11_UnsupportedTag ==
    (last.op \in AttachmentMethods /\ UnsupportedTag)
    => /\ last.exc = UnsupportedAttachmentError
       /\ last.msg = UnimplementedAttachment(before.attachment)
       /\ SubSeq(last.msg, Len(last.msg) - 1, Len(last.msg))
            = (IF before.attachment = 17 THEN <<"1", "7">> ELSE <<" ", "2">>)
       /\ WroteNothing
       /\ Unchanged

C11_Witness ==
    /\ Called("gcode_attachment_high")
    /\ before.attachment = 17
    /\ WasOpen
    /\ last.exc = UnsupportedAttachmentError
    /\ last.msg[Len(last.msg)] = "7"
    /\ wire = <<>>

-----------------------------------------------------------------------------
(* C12 *)

\* C12: gcode_pos with a name that is none of home, end_stop, bottom, rest
\* returns 0 and raises nothing, writes nothing, and leaves the position, the
\* __already_init flag and every other field as they were, whether the port
\* is absent, closed or open.
C12_UnknownPreset ==
    (Called("gcode_pos") /\ last.arg[1] \notin Presets)
    => /\ last.exc = NoExc
       /\ last.ret = PyInt(0)
       /\ WroteNothing
       /\ PosNow = PosBefore
       /\ already_init = before.already_init
       /\ Unchanged

C12_Witness ==
    /\ Called("gcode_pos") /\ last.arg[1] \notin Presets
    /\ WasAbsent
    /\ last.ret = PyInt(0)
    /\ PosNow = <<None, None, None>>

-----------------------------------------------------------------------------
(* C13 *)

Line_Bottom ==
    <<"G", "1", " ", "X", "0", " ", "Y", "1", "0", "0", " ", "Z", "0", "\r", "\n">>
Line_Rest ==
    <<"G", "1", " ", "X", "0", " ", "Y", "4", "0", " ", "Z", "7", "0", "\r", "\n">>

PresetLine(to) ==
    CASE to = POS_HOME -> Line_Home
      [] to = POS_END_STOP -> Line_EndStop
      [] to = POS_BOTTOM -> Line_Bottom
      [] to = POS_REST -> Line_Rest

PresetPos(to) ==
    CASE to = POS_HOME -> <<PyInt(0), PyInt(120), PyInt(120)>>
      [] to = POS_END_STOP -> <<PyFloat(0), PyFloat(1950), PyFloat(13400)>>
      [] to = POS_BOTTOM -> <<PyInt(0), PyInt(100), PyInt(0)>>
      [] to = POS_REST -> <<PyInt(0), PyInt(40), PyInt(70)>>

\* C13: gcode_pos with home, end_stop, bottom or rest on an open port raises
\* nothing, writes exactly one line, the G1 command of the preset (ints for
\* home, bottom and rest, one-decimal floats for end_stop), returns its
\* length, and leaves the tracked position equal to the preset's triple with
\* its int or float kinds, whatever the position was before; nothing else of
\* the session changes.
C13_Presets ==
    (Called("gcode_pos") /\ last.arg[1] \in Presets /\ WasOpen)
    => /\ last.exc = NoExc
       /\ NewWrites = <<PresetLine(last.arg[1])>>
       /\ last.ret = PyInt(Len(PresetLine(last.arg[1])))
       /\ PosNow = PresetPos(last.arg[1])
       /\ [Self EXCEPT !.x_pos = before.x_pos, !.y_pos = before.y_pos,
                       !.z_pos = before.z_pos, !.wire = before.wire] = before

\* the rest preset from the end_stop position the handshake left
C13_Witness ==
    /\ Called("gcode_pos") /\ last.arg[1] = POS_REST
    /\ WasOpen
    /\ PosBefore = PresetPos(POS_END_STOP)
    /\ PosNow = <<PyInt(0), PyInt(40), PyInt(70)>>
    /\ wire[Len(wire)] = Line_Rest

-----------------------------------------------------------------------------
(* C14 *)

\* construction that looked for the default port: no port supplied and
\* use_default_serial_port set; last.arg[5] is what comports() reported
Discovered == Called("__init__") /\ last.arg[2] = NoPort /\ last.arg[3]
UsbIdx(ports) == {i \in 1..Len(ports) : UsbRegexSearch(ports[i])}
FirstUsb(ports) == ports[CHOOSE i \in UsbIdx(ports) : \A j \in UsbIdx(ports) : i <= j]

\* C14: the default port is the first reported device whose name contains
\* "usb" in any case, with baud rate 9600 and timeout 2, not opened by the
\* discovery; when no device matches, the empty list included, the discovery
\* fails with the 'Cannot find USB port' exception.
C14_FirstUsbDevice ==
    Discovered
    => IF UsbIdx(last.arg[5]) = {}
       THEN last.exc = DeviceNotFoundError
       ELSE /\ serial_port # NoPort
            /\ serial_port.port = FirstUsb(last.arg[5])
            /\ serial_port.baudrate = 9600
            /\ serial_port.timeout = 2
            /\ ~last.arg[4] => ~serial_port.is_open

-----------------------------------------------------------------------------
(* C15 *)

\* C15: once the session is released its port is not open.  __del__ raises
\* nothing and writes nothing; it closes the port when it was open, changing
\* nothing else, and changes nothing at all when the port was absent or
\* already closed.  This holds after a construction that raised and after
\* calls that raised.
C15_Teardown ==
    /\ phase = "deleted" => ~is_connection_open(Self)
    /\ Called("__del__")
       => /\ phase = "deleted"
          /\ last.exc = NoExc
          /\ WroteNothing
          /\ WasOpen => Self = [before EXCEPT !.serial_port.is_open = FALSE]
          /\ ~WasOpen => Unchanged

\* released after a construction whose handshake failed on an open port
C15_Witness ==
    /\ Called("__del__")
    /\ WasOpen
    /\ ~before.already_init
    /\ before.wire # <<>>
    /\ ncalls = 1
    /\ serial_port # NoPort /\ ~serial_port.is_open

-----------------------------------------------------------------------------
(* C16 *)

AllSet == \A i \in 1..3 : ~IsNone(PosNow[i])
IsMoveLine(payload) == Len(payload) > 3 /\ SubSeq(payload, 1, 3) = <<"G", "1", " ">>
MoveWritten == \E i \in 1..Len(wire) : IsMoveLine(wire[i])

\* C16 as stated: in every reachable state, once a G1 move has been written
\* to the port all three of x, y, z are set.
C16_AsStated == MoveWritten => AllSet

\* C16, amended: a field once set stays set; after gcode_send_pos,
\* gcode_send_pos_delta, a step, a preset or the handshake has written, all
\* three fields are set, and so they are whenever __already_init is set and,
\* on a session whose port the caller never opened on the port object
\* itself, whenever anything at all has been written.  A raw command sets
\* only the axes its pieces name.
C16_UnsetOnlyBeforeMove ==
    /\ \A i \in 1..3 : ~IsNone(PosBefore[i]) => ~IsNone(PosNow[i])
    /\ (last.op \in MoveMethods /\ ~WroteNothing) => AllSet
    /\ already_init => AllSet
    /\ (~caller_opened /\ wire # <<>>) => AllSet

\* a raw move on a port the caller opened, on a session not yet initialized
C16_Witness ==
    /\ Called("gcode_send")
    /\ caller_opened /\ ~already_init
    /\ MoveWritten
    /\ ~IsNone(x_pos) /\ IsNone(y_pos)

-----------------------------------------------------------------------------
(* C17 *)

\* the arguments of the construction: the port supplied, the two flags, the
\* devices comports() reported and whether the operating system lets the
\* port be opened
CtorPort == last.arg[2]
CtorUseDefault == last.arg[3]
CtorStart == last.arg[4]
CtorDevices == last.arg[5]
CtorOsOk == last.arg[6]
Supplied == CtorPort # NoPort
DiscoveryFails == ~Supplied /\ CtorUseDefault /\ UsbIdx(CtorDevices) = {}
NoTransport == ~Supplied /\ ~CtorUseDefault
OpenAtStart == Supplied /\ CtorPort.is_open
ClosedAtStart == ~OpenAtStart /\ ~DiscoveryFails /\ ~NoTransport
NoIO == wire = <<>> /\ ~already_init /\ PosNow = <<None, None, None>>

\* the initialization sequence ran on an open port: the whole handshake for
\* the gripper and the fan, and up to the failing attachment step otherwise
HandshakeRan ==
    /\ is_connection_open(Self)
    /\ PosNow = <<PyFloat(0), PyFloat(1950), PyFloat(13400)>>
    /\ IF GripperOrFan
       THEN /\ last.exc = NoExc
            /\ wire = <<Line_M17, Line_EndStop, TableLow(attachment)>>
            /\ already_init
       ELSE /\ last.exc = UnsupportedAttachmentError
            /\ wire = <<Line_M17, Line_EndStop>>
            /\ ~already_init

\* C17: the outcome of __init__ for every combination of its arguments.  A
\* supplied port is the one the session uses and no discovery is made.  A port
\* already open gets the initialization sequence at once.  A closed port
\* with start_connection set is opened by open_connection, which runs the
\* initialization sequence (on a port that could not be opened its first
\* send fails).  Without start_connection nothing is written, the port stays
\* closed, the session uninitialized and the position Unset.  With no port,
\* no discovery and start_connection set, __init__ raises 'No serial port
\* defined'.
C17_Construction ==
    Called("__init__")
    => /\ attachment = last.arg[1]
       /\ Supplied => /\ serial_port # NoPort
                       /\ [serial_port EXCEPT !.is_open = CtorPort.is_open] = CtorPort
       /\ OpenAtStart => HandshakeRan
       /\ (ClosedAtStart /\ CtorStart /\ CtorOsOk) => HandshakeRan
       /\ (ClosedAtStart /\ CtorStart /\ ~CtorOsOk)
            => ~is_connection_open(Self) /\ last.exc = ConnectionError /\ NoIO
       /\ (ClosedAtStart /\ ~CtorStart)
            => /\ last.exc = NoExc /\ NoIO
               /\ serial_port # NoPort /\ ~serial_port.is_open
       /\ (NoTransport /\ ~CtorStart)
            => last.exc = NoExc /\ NoIO /\ serial_port = NoPort
       /\ (NoTransport /\ CtorStart)
            => last.exc = ConfigurationError /\ NoIO /\ serial_port = NoPort
       /\ DiscoveryFails => last.exc # NoExc /\ NoIO /\ serial_port = NoPort

\* a supplied open port, start_connection not set: the handshake ran at once
C17_Witness ==
    /\ Called("__init__")
    /\ OpenAtStart /\ ~CtorStart /\ CtorUseDefault
    /\ attachment = ATTACHMENT_FAN
    /\ already_init
    /\ wire = <<Line_M17, Line_EndStop, Line_M107>>
    /\ serial_port.port = COM1

-----------------------------------------------------------------------------
(* C18 *)

\* C18: close_connection raises 'No serial port defined' when the session
\* has no port and changes nothing; otherwise it raises nothing and leaves
\* the port closed, whether it was open or already closed, writes nothing and
\* leaves the position, __already_init, the step sizes and everything else
\* as they were.  is_connection_open is False without a port and the port's
\* is_open otherwise, and so False after every close_connection that
\* returned.
C18_Close ==
    /\ is_connection_open(Self) <=> (serial_port # NoPort /\ serial_port.is_open)
    /\ is_connection_not_open(Self) <=> ~is_connection_open(Self)
    /\ Called("close_connection")
       => IF WasAbsent
          THEN last.exc = ConfigurationError /\ Unchanged
          ELSE /\ last.exc = NoExc
               /\ Self = [before EXCEPT !.serial_port.is_open = FALSE]
               /\ WroteNothing
               /\ PosNow = PosBefore
               /\ already_init = before.already_init
               /\ <<coarse_step, fine_step>> = <<before.coarse_step, before.fine_step>>
               /\ ~is_connection_open(Self)

\* closing the open port of an initialized session
C18_Witness ==
    /\ Called("close_connection")
    /\ WasOpen
    /\ last.exc = NoExc
    /\ already_init
    /\ PosNow = <<PyFloat(0), PyFloat(1950), PyFloat(13400)>>
    /\ ~is_connection_open(Self)

-----------------------------------------------------------------------------
(* C19 *)

EndsCRLF(payload) ==
    Len(payload) >= 2 /\ SubSeq(payload, Len(payload) - 1, Len(payload)) = CRLF

\* C19: a send operation that returns has made exactly one write and returns
\* its byte count; every payload written is a command followed by the two
\* bytes CR, LF, and for a raw command it is the UTF-8 encoding of the
\* command text followed by CR, LF.
C19_CrLfLines ==
    /\ \A i \in 1..Len(wire) : EndsCRLF(wire[i])
    /\ (last.op \in SendMethods /\ last.exc = NoExc /\ ReachesTransmit)
       => Len(NewWrites) = 1 /\ last.ret = PyInt(Len(NewWrites[1]))
    /\ (Called("gcode_send") /\ last.exc = NoExc)
       => NewWrites = <<Utf8(last.arg[1]) \o CRLF>>

-----------------------------------------------------------------------------
(* C20 *)

AxisChar == <<"X", "Y", "Z">>
\* the suffix gcode_send took for axis i from the raw command sent before
RawLiteral(i) ==
    LET segs == Split(prev_raw)
    IN  Tail(segs[LastIdx(AxisIdx(segs, AxisChar[i]))])
\* what the line just written shows for axis i
ReEmitted(i) ==
    LET line == wire[Len(wire)]
    IN  Tail(Split(SubSeq(line, 1, Len(line) - 2))[i + 1])
\* digits, a point and exactly one digit
OneDecimal(lit) ==
    FloatOk(lit) /\ DotAt(Unsigned(lit)) > 0
    /\ DotAt(Unsigned(lit)) = Len(Unsigned(lit)) - 1
Text10 == <<"1", "0">>
Text10p0 == <<"1", "0", ".", "0">>

-----------------------------------------------------------------------------
(* C21 *)

\* C21: on a session whose attachment is neither the gripper nor the fan,
\* every run of the initialization sequence on an open port writes M17 and
\* the end_stop move, and nothing else, leaves the position at
\* (0.0, 19.5, 134.0) and then raises the "unimplemented attachment type"
\* exception with __already_init still false; the same happens on every
\* later run, whatever was written before, and __already_init is never true
\* for such a session.
C21_HandshakeNotAtomic ==
    (phase # "new" /\ ~GripperOrFan)
    => /\ ~already_init
       /\ InitRanOpen
          => /\ NewWrites = <<Line_M17, Line_EndStop>>
             /\ PosNow = <<PyFloat(0), PyFloat(1950), PyFloat(13400)>>
             /\ last.exc = UnsupportedAttachmentError
             /\ last.msg = UnimplementedAttachment(attachment)

\* open_connection failing the same way a second time
C21_Witness ==
    /\ Called("open_connection")
    /\ ~GripperOrFan
    /\ before.wire = <<Line_M17, Line_EndStop>>
    /\ wire = <<Line_M17, Line_EndStop, Line_M17, Line_EndStop>>
    /\ last.exc = UnsupportedAttachmentError
    /\ ~already_init

-----------------------------------------------------------------------------
(* C22 *)

FirstWrite == before.wire = <<>> /\ wire # <<>>

\* C22: on a session whose port was open when it was constructed or was
\* opened by open_connection, and never by the caller on the port object
\* itself, the first line ever written is the M17 of the handshake, and the
\* call that writes it is one that runs the initialization sequence, so no
\* command of the caller reaches the port before the handshake has begun;
\* and in every session, whenever __already_init is true, x, y and z are all
\* set.
C22_HandshakeFirst ==
    /\ ~caller_opened
       => /\ wire # <<>> => wire[1] = Line_M17
          /\ FirstWrite => InitRanOpen
          /\ (last.op \in SendMethods /\ ~WroteNothing) => before.wire # <<>>
    /\ already_init => \A i \in 1..3 : ~IsNone(PosNow[i])

\* a raw command of the caller, written after the handshake of construction
C22_Witness ==
    /\ ~caller_opened
    /\ Called("gcode_send")
    /\ ~WroteNothing
    /\ Len(wire) = 4
    /\ wire[1] = Line_M17
    /\ already_init

====
